---- MODULE Spec2Model ----
(***************************************************************************)
(* Model of the chat client of uk-tax-assistant (src/src/App.jsx, the      *)
(* component at lines 32-214): the conversation state, the submission      *)
(* handler handleSend and the job poller pollJobStatus, each cut into one  *)
(* action per run-to-next-await segment of the single-threaded event loop. *)
(*                                                                         *)
(* React state is read as committed: updates made in a discrete event      *)
(* (submit, keydown) are flushed before the next event is handled, so a    *)
(* handler sees the isTyping and input of the latest update.  nanoid() is  *)
(* a fresh identifier on every call (nextId); new Date() is the ordinal of *)
(* the message's creation (clock).  lastEvent records whether the step     *)
(* just taken was a call of handleSend.                                    *)
(*                                                                         *)
(* The two pure functions of the component, resolveResponseText and        *)
(* parseMessage, are also exercised on their own, over payloads and texts  *)
(* built step by step (ResolveSpec, ParseSpec).                            *)
(*                                                                         *)
(* The earlier variant of the client kept in the same file (lines 224-517) *)
(* is modelled on the same variables (EarlierSpec), and the admin panel of *)
(* src/src/AdminPanel.jsx on variables of its own (AdminSpec).             *)
(***************************************************************************)
EXTENDS Integers, Sequences, FiniteSets, TLC

VARIABLES messages, input, isTyping, tasks, nextId, clock, lastEvent,
          payload, resolved, ptext, segments, steps,
          currentConfig, systemConfig, emergencyConfig, loading, saving,
          status, adminCalls, lastOverride, adminEvent, nAdminCalls

\* the state of the chat component
chatVars == <<messages, input, isTyping, tasks, nextId, clock, lastEvent>>

\* the argument and the result of the two pure functions, resolveResponseText
\* and parseMessage, when they are exercised on their own, and the number of
\* steps in which the argument was built
pureVars == <<payload, resolved, ptext, segments, steps>>

\* the state of the admin panel (src/src/AdminPanel.jsx), the calls of its
\* handlers that are in flight, and what is known of their outcomes
adminVars == <<currentConfig, systemConfig, emergencyConfig, loading, saving,
               status, adminCalls, lastOverride, adminEvent, nAdminCalls>>

vars == <<messages, input, isTyping, tasks, nextId, clock, lastEvent,
          payload, resolved, ptext, segments, steps,
          currentConfig, systemConfig, emergencyConfig, loading, saving,
          status, adminCalls, lastOverride, adminEvent, nAdminCalls>>

(* ---------------------------- bounds ---------------------------------- *)

\* number of submissions accepted in one run of the model
MaxSubmits == 2

\* number of wrapping or encoding steps applied to a payload
MaxWraps == 3

\* number of pieces a message text is put together from
MaxPieces == 5

(* ----------------------- program constants ---------------------------- *)

maxAttempts == 15

GreetingText == "I am the UK SME Tax & Accounting Advisor.\n\nAsk me anything about Corporation Tax, VAT, PAYE, or financial reporting standards. Let's get started."

ThinkingText == "Analyzing with HMRC & ACCA sources..."

DefaultFinalResponse == "A technical error occurred. Please try again."

ErrorPrefix == "A technical issue occurred: "

IsErrorPrefix == "A technical issue occurred"

UnexpectedResponse == "Unexpected response"

(* ------------------------- JavaScript values -------------------------- *)
(* A decoded JSON value or a JS primitive: t is the typeof-like tag, s the *)
(* string content (for numbers and booleans their literal), f the fields   *)
(* of an object as <<key, value>> pairs, or the elements of an array.      *)

JStr(str) == [t |-> "string", s |-> str, f |-> <<>>]

JNum(lit) == [t |-> "number", s |-> lit, f |-> <<>>]

JBool(lit) == [t |-> "boolean", s |-> lit, f |-> <<>>]

JNull == [t |-> "null", s |-> "", f |-> <<>>]

JUndef == [t |-> "undefined", s |-> "", f |-> <<>>]

JObj(fields) == [t |-> "object", s |-> "", f |-> fields]

JArr(elems) == [t |-> "array", s |-> "", f |-> elems]

\* the pseudo-value standing for "evaluation threw a TypeError"
Thrown == [t |-> "throw", s |-> "TypeError", f |-> <<>>]

\* property read o[k]: undefined on a primitive or when the key is absent
Field(o, k) ==
  IF o.t = "object" /\ \E i \in 1..Len(o.f) : o.f[i][1] = k
    THEN o.f[CHOOSE i \in 1..Len(o.f) : o.f[i][1] = k][2]
    ELSE JUndef

\* ToBoolean
Truthy(v) ==
  CASE v.t = "string" -> v.s # ""
    [] v.t = "number" -> v.s # "0"
    [] v.t = "boolean" -> v.s = "true"
    [] v.t \in {"null", "undefined"} -> FALSE
    [] OTHER -> TRUE

RECURSIVE JoinStr(_, _)
\* Array.prototype.join on a sequence of strings
JoinStr(strs, sep) ==
  IF strs = <<>> THEN ""
  ELSE IF Len(strs) = 1 THEN strs[1]
  ELSE strs[1] \o sep \o JoinStr(Tail(strs), sep)

RECURSIVE EscapeJson(_)
\* the escapes JSON.stringify puts into a string literal
EscapeJson(str) ==
  IF Len(str) = 0 THEN ""
  ELSE LET c == SubSeq(str, 1, 1)
           rest == EscapeJson(SubSeq(str, 2, Len(str)))
       IN CASE c = "\"" -> "\\\"" \o rest
            [] c = "\\" -> "\\\\" \o rest
            [] c = "\n" -> "\\n" \o rest
            [] c = "\t" -> "\\t" \o rest
            [] OTHER -> c \o rest

RECURSIVE Stringify(_)
\* JSON.stringify of a decoded JSON value
Stringify(v) ==
  CASE v.t = "string" -> "\"" \o EscapeJson(v.s) \o "\""
    [] v.t \in {"number", "boolean"} -> v.s
    [] v.t = "null" -> "null"
    [] v.t = "array" ->
         "[" \o JoinStr([i \in 1..Len(v.f) |-> Stringify(v.f[i])], ",") \o "]"
    [] OTHER ->
         "{" \o JoinStr([i \in 1..Len(v.f) |->
                          "\"" \o EscapeJson(v.f[i][1]) \o "\":"
                            \o Stringify(v.f[i][2])], ",")
             \o "}"

RECURSIVE ToStr(_)
\* String(v), as the Error constructor applies it to its message argument
ToStr(v) ==
  CASE v.t \in {"string", "number", "boolean"} -> v.s
    [] v.t = "null" -> "null"
    [] v.t = "undefined" -> "undefined"
    [] v.t = "array" -> JoinStr([i \in 1..Len(v.f) |->
                          IF v.f[i].t \in {"null", "undefined"} THEN ""
                          ELSE ToStr(v.f[i])], ",")
    [] OTHER -> "[object Object]"

(* ----------------------------- strings -------------------------------- *)

IsSpace(c) == c \in {" ", "\n", "\t"}

RECURSIVE TrimStart(_)
TrimStart(str) ==
  IF Len(str) > 0 /\ IsSpace(SubSeq(str, 1, 1))
    THEN TrimStart(SubSeq(str, 2, Len(str)))
    ELSE str

RECURSIVE TrimEnd(_)
TrimEnd(str) ==
  IF Len(str) > 0 /\ IsSpace(SubSeq(str, Len(str), Len(str)))
    THEN TrimEnd(SubSeq(str, 1, Len(str) - 1))
    ELSE str

\* String.prototype.trim
Trim(str) == TrimEnd(TrimStart(str))

\* String.prototype.startsWith
StartsWith(str, prefix) ==
  Len(str) >= Len(prefix) /\ SubSeq(str, 1, Len(prefix)) = prefix

(* ------------------- engine-provided error messages ------------------- *)
(* err.message of the errors the runtime itself throws; the wording is the *)
(* JavaScript engine's, the model fixes one representative of each.        *)

\* fetch() rejected: no connection, DNS failure, CORS refusal
FetchFailedMsg == "Failed to fetch"

\* response.json() rejected: the body is not JSON
JsonParseMsg == "Unexpected end of JSON input"

\* const { jobId } = null
DestructureMsg == "Cannot destructure property 'jobId' of '(intermediate value)' as it is null."

\* null.detail
ReadDetailMsg == "Cannot read properties of null (reading 'detail')"

(* ------------------------ what the backend sends ----------------------- *)

\* what the user may have in the text area
Inputs == {"", " ", " q "}

\* status codes of the reply to POST /ask
HttpStatuses == {200, 202, 500}

AnswerString == JStr("VAT is 20% [source: HMRC]")

AnswerObject == JObj(<< <<"text", JStr("Pay by 31 January")>> >>)

AnswerUnknownShape == JObj(<< <<"answer", JStr("yes")>> >>)

\* decoded bodies of the reply to POST /ask
AskBodies ==
  { JObj(<< <<"jobId", JStr("job-1")>> >>),
    JObj(<<>>),
    JObj(<< <<"detail", JStr("Rate limit exceeded")>> >>),
    JNull,
    AnswerString }

\* the response field of a COMPLETE status reply
Responses == {AnswerString, AnswerObject, AnswerUnknownShape, JNull}

\* decoded bodies of the reply to GET /status
StatusBodies ==
  { JObj(<< <<"status", JStr("PENDING")>> >>),
    JObj(<< <<"status", JStr("PROCESSING")>> >>),
    JObj(<< <<"status", JStr("ERROR")>> >>),
    JObj(<< <<"status", JStr("CANCELLED")>> >>),
    JObj(<< <<"status", JStr("COMPLETE")>> >>),
    JObj(<<>>),
    JNull }
  \cup { JObj(<< <<"status", JStr("COMPLETE")>>, <<"response", r>> >>) : r \in Responses }

(* ------------------------------ program ------------------------------- *)

\* mutant: the function reading raw?.text, so that null goes to JSON.stringify
resolveResponseTextNullSafe(raw) ==
  IF raw.t = "string" THEN raw
  ELSE IF raw.t \in {"null", "undefined"} THEN JStr("null")
  ELSE IF Truthy(Field(raw, "text")) THEN Field(raw, "text")
  ELSE JStr(Stringify(raw))

\* const resolveResponseText = (raw) => ...
resolveResponseText(raw) ==
  IF raw.t = "string" THEN raw
  ELSE IF raw.t \in {"null", "undefined"} THEN Thrown
  ELSE IF Truthy(Field(raw, "text")) THEN Field(raw, "text")
  ELSE JStr(Stringify(raw))

\* a message record; isStatus is absent (falsy) on all but the placeholder
Message(id, sender, text, timestamp, isStatus) ==
  [id |-> id, sender |-> sender, text |-> text, timestamp |-> timestamp,
   isStatus |-> isStatus]

\* const isError = msg.text.startsWith("A technical issue occurred")
isError(msg) == msg.text.t = "string" /\ StartsWith(msg.text.s, IsErrorPrefix)

\* mutant: the guard without the in-flight test
RejectedNoFlag(inp, typing) == Trim(inp) = ""

\* if (!input.trim() || isTyping) return;
Rejected(inp, typing) == Trim(inp) = "" \/ typing

\* mutant: the loop head going on after anything but COMPLETE
LoopContinuesRetry(jobStatus, attempts) ==
  jobStatus # JStr("COMPLETE") /\ attempts < maxAttempts

\* mutant: the loop head taking a missing status for a pending one
LoopContinuesUnknown(jobStatus, attempts) ==
  /\ jobStatus \in {JStr("PENDING"), JStr("PROCESSING"), JUndef}
  /\ attempts < maxAttempts

\* mutant: the loop head with an off-by-one attempt budget
LoopContinuesOffByOne(jobStatus, attempts) ==
  jobStatus \in {JStr("PENDING"), JStr("PROCESSING")} /\ attempts <= maxAttempts

\* while ((jobStatus === "PENDING" || jobStatus === "PROCESSING") && attempts < maxAttempts)
LoopContinues(jobStatus, attempts) ==
  jobStatus \in {JStr("PENDING"), JStr("PROCESSING")} /\ attempts < maxAttempts

\* mutant: the catch block of the loop treating the failure as transient
CatchStatusTransient == JStr("PENDING")

\* catch { jobStatus = "ERROR"; }
CatchStatus == JStr("ERROR")

\* mutant: the error text of the earlier variant
ErrorTextOther(errMessage) == JStr("I'm experiencing a technical issue: " \o errMessage)

\* text: `A technical issue occurred: ${err.message}`
ErrorText(errMessage) == JStr(ErrorPrefix \o errMessage)

\* mutant: the catch block of handleSend without setIsTyping(false)
TypingAfterCatchKept == TRUE

\* setIsTyping(false) in the catch block of handleSend
TypingAfterCatch == FALSE

\* setIsTyping(false) after the loop of pollJobStatus
TypingAfterPoll == FALSE

\* mutant: the updater putting the final message first
ReplaceStatusFront(msgs, thinkingId, newMsg) ==
  <<newMsg>> \o SelectSeq(msgs, LAMBDA m : m.id # thinkingId)

\* mutant: the updater without the filter
ReplaceStatusNoFilter(msgs, thinkingId, newMsg) == msgs \o <<newMsg>>

\* the updater (msgs) => [...msgs.filter((m) => m.id !== thinkingId), {...}]
ReplaceStatus(msgs, thinkingId, newMsg) ==
  SelectSeq(msgs, LAMBDA m : m.id # thinkingId) \o <<newMsg>>

\* the locals of one handleSend call and of the pollJobStatus call it starts,
\* with the counts of what the call has done so far (askBody is data of the
\* else branch of handleSend, lastData is data of the last status query)
NewTask ==
  [pc |-> "ask", httpStatus |-> 0, jobId |-> JUndef, thinkingId |-> 0,
   jobStatus |-> JStr("PENDING"), finalResponse |-> JStr(DefaultFinalResponse),
   attempts |-> 0, nQueries |-> 0, nPending |-> 0, nReplaced |-> 0,
   askResult |-> "none", askBody |-> JUndef,
   lastQuery |-> "none", lastData |-> JUndef, errMessage |-> "",
   userId |-> 0, finalId |-> 0]

\* a call that returned before the latest submission: its locals are gone
RetiredTask == [NewTask EXCEPT !.pc = "retired"]

Retire(ts) == [i \in 1..Len(ts) |-> IF ts[i].pc = "done" THEN RetiredTask ELSE ts[i]]

ChatInit ==
  /\ messages = << Message(1, "assistant", JStr(GreetingText), 1, FALSE) >>
  /\ input = ""
  /\ isTyping = FALSE
  /\ tasks = <<>>
  /\ nextId = 2
  /\ clock = 2
  /\ lastEvent = "other"

\* the pure functions are not being exercised
PureIdle ==
  /\ payload = JUndef
  /\ resolved = JUndef
  /\ ptext = ""
  /\ segments = <<>>
  /\ steps = 0

\* useState(null): no effective configuration is displayed
NoConfig == [source |-> "none", provider |-> "", model |-> ""]

\* no override has been loaded or saved yet
NoOverride == [emergency_mode |-> FALSE, force_provider |-> "", force_model |-> ""]

\* the initial values of the two forms (lines 12-28), of their fields those
\* that reach the displayed configuration
AdminDefaults ==
  [sys |-> [default_provider |-> "bedrock",
            default_model |-> "anthropic.claude-3-7-sonnet-20250219-v1:0"],
   emg |-> [emergency_mode |-> FALSE, force_provider |-> "bedrock",
            force_model |-> "anthropic.claude-3-7-sonnet-20250219-v1:0"]]

\* the admin panel is not mounted
AdminIdle ==
  /\ currentConfig = NoConfig
  /\ systemConfig = AdminDefaults.sys
  /\ emergencyConfig = AdminDefaults.emg
  /\ loading = TRUE
  /\ saving = FALSE
  /\ status = "none"
  /\ adminCalls = <<>>
  /\ lastOverride = NoOverride
  /\ adminEvent = "none"
  /\ nAdminCalls = 0

Init == ChatInit /\ PureIdle /\ AdminIdle

\* onChange={(e) => setInput(e.target.value)}; the handler itself has no
\* guard (the disabled attribute of the text area is set at render only)
SetInput(str) ==
  /\ input' = str
  /\ lastEvent' = "other"
  /\ UNCHANGED <<pureVars, adminVars>>
  /\ UNCHANGED <<messages, isTyping, tasks, nextId, clock>>

\* mutant: handleSend without the user message
HandleSendNoUserMessage ==
  /\ lastEvent' = "handleSend"
  /\ UNCHANGED <<pureVars, adminVars>>
  /\ IF Rejected(input, isTyping)
       THEN UNCHANGED <<messages, input, isTyping, tasks, nextId, clock>>
       ELSE /\ Len(tasks) < MaxSubmits
            /\ messages' = messages
            /\ input' = ""
            /\ isTyping' = TRUE
            /\ tasks' = Append(Retire(tasks), [NewTask EXCEPT !.userId = nextId])
            /\ nextId' = nextId + 1
            /\ clock' = clock + 1

\* handleSend up to its first await: the guard, the user message, the flag,
\* and the submission request
HandleSend ==
  /\ lastEvent' = "handleSend"
  /\ UNCHANGED <<pureVars, adminVars>>
  /\ IF Rejected(input, isTyping)
       THEN UNCHANGED <<messages, input, isTyping, tasks, nextId, clock>>
       ELSE /\ Len(tasks) < MaxSubmits
            /\ messages' = Append(messages,
                 Message(nextId, "user", JStr(Trim(input)), clock, FALSE))
            /\ input' = ""
            /\ isTyping' = TRUE
            /\ tasks' = Append(Retire(tasks), [NewTask EXCEPT !.userId = nextId])
            /\ nextId' = nextId + 1
            /\ clock' = clock + 1

\* mutant: try blocks that enclose the network calls only
InTryNetworkOnly(site) == site \in {"ask.fetch", "poll.fetch"}

\* the statements that can throw and lie inside a try block: in handleSend
\* the request (line 105), the decoding of the body (111, 114), the
\* destructuring of jobId (111), the read of data.detail and the throw
\* statement (115); in pollJobStatus the status request (77), the decoding
\* (78), the read of data.status (79) and resolveResponseText (81)
InTry(site) ==
  site \in {"ask.fetch", "ask.json", "ask.jobId", "ask.detail", "ask.throw",
            "poll.fetch", "poll.json", "poll.status", "poll.resolve"}

\* an exception no try block encloses: the promise of the async function is
\* rejected and the rest of the function does not run
Uncaught(t, task) ==
  /\ tasks' = [tasks EXCEPT ![t] = [task EXCEPT !.pc = "uncaught"]]
  /\ UNCHANGED <<messages, input, isTyping, nextId, clock>>

\* the catch block of handleSend
SubmitCatch(t, task, errMessage) ==
  /\ isTyping' = TypingAfterCatch
  /\ messages' = Append(messages,
       Message(nextId, "assistant", ErrorText(errMessage), clock, FALSE))
  /\ tasks' = [tasks EXCEPT ![t] = [task EXCEPT !.pc = "done",
                                               !.errMessage = errMessage,
                                               !.finalId = nextId]]
  /\ nextId' = nextId + 1
  /\ clock' = clock + 1
  /\ UNCHANGED input

\* an exception thrown at a statement of handleSend
SubmitThrow(t, task, site, errMessage) ==
  IF InTry(site) THEN SubmitCatch(t, task, errMessage) ELSE Uncaught(t, task)

\* pollJobStatus up to its first await: the placeholder, the locals, the
\* first pass of the loop head and the start of the first delay
StartPoll(t, task, jobId) ==
  /\ messages' = Append(messages,
       Message(nextId, "assistant", JStr(ThinkingText), clock, TRUE))
  /\ tasks' = [tasks EXCEPT ![t] =
       [task EXCEPT !.thinkingId = nextId,
                 !.jobId = jobId,
                 !.jobStatus = JStr("PENDING"),
                 !.finalResponse = JStr(DefaultFinalResponse),
                 !.attempts = IF LoopContinues(JStr("PENDING"), 0) THEN 1 ELSE 0,
                 !.pc = "pollDelay"]]
  /\ nextId' = nextId + 1
  /\ clock' = clock + 1
  /\ UNCHANGED <<input, isTyping>>

\* await fetch(`${API_BASE_URL}/ask`) rejects
AskFetchRejects(t) ==
  /\ tasks[t].pc = "ask"
  /\ lastEvent' = "other"
  /\ UNCHANGED <<pureVars, adminVars>>
  /\ SubmitThrow(t, [tasks[t] EXCEPT !.askResult = "rejected"],
                 "ask.fetch", FetchFailedMsg)

\* await fetch(`${API_BASE_URL}/ask`) resolves with a status code
AskFetchResolves(t, st) ==
  /\ tasks[t].pc = "ask"
  /\ lastEvent' = "other"
  /\ UNCHANGED <<pureVars, adminVars>>
  /\ tasks' = [tasks EXCEPT ![t] = [@ EXCEPT !.pc = "askJson", !.httpStatus = st]]
  /\ UNCHANGED <<messages, input, isTyping, nextId, clock>>

\* await response.json() rejects, in either branch
AskJsonRejects(t) ==
  /\ tasks[t].pc = "askJson"
  /\ lastEvent' = "other"
  /\ UNCHANGED <<pureVars, adminVars>>
  /\ SubmitThrow(t, [tasks[t] EXCEPT !.askResult = "undecodable"],
                 "ask.json", JsonParseMsg)

\* await response.json() resolves, in either branch
AskJsonResolves(t, body) ==
  /\ tasks[t].pc = "askJson"
  /\ lastEvent' = "other"
  /\ UNCHANGED <<pureVars, adminVars>>
  /\ LET task == [tasks[t] EXCEPT !.askResult = "decoded"]
         elseTask == [task EXCEPT !.askBody = body]
     IN IF task.httpStatus = 202
          THEN IF body.t \in {"null", "undefined"}
                 THEN SubmitThrow(t, task, "ask.jobId", DestructureMsg)
                 ELSE StartPoll(t, task, Field(body, "jobId"))
          ELSE IF body.t \in {"null", "undefined"}
                 THEN SubmitThrow(t, elseTask, "ask.detail", ReadDetailMsg)
                 ELSE SubmitThrow(t, elseTask, "ask.throw",
                                  IF Truthy(Field(body, "detail"))
                                    THEN ToStr(Field(body, "detail"))
                                    ELSE UnexpectedResponse)

\* lines 88-92: clear the flag and swap the placeholder for the final message
Finish(t, task) ==
  /\ isTyping' = TypingAfterPoll
  /\ messages' = ReplaceStatus(messages, task.thinkingId,
       Message(nextId, "assistant", task.finalResponse, clock, FALSE))
  /\ tasks' = [tasks EXCEPT ![t] = [task EXCEPT !.pc = "done",
                                               !.nReplaced = @ + 1,
                                               !.finalId = nextId]]
  /\ nextId' = nextId + 1
  /\ clock' = clock + 1
  /\ UNCHANGED input

\* the rest of a loop pass after the try/catch: back to the loop head, then
\* either the next pass up to its delay, or the code after the loop
LoopHead(t, task) ==
  IF LoopContinues(task.jobStatus, task.attempts)
    THEN /\ tasks' = [tasks EXCEPT ![t] = [task EXCEPT !.attempts = @ + 1,
                                                      !.pc = "pollDelay"]]
         /\ UNCHANGED <<messages, input, isTyping, nextId, clock>>
    ELSE Finish(t, task)

\* an exception thrown at a statement of the loop body of pollJobStatus
PollThrow(t, task, site) ==
  IF InTry(site)
    THEN LoopHead(t, [task EXCEPT !.jobStatus = CatchStatus])
    ELSE Uncaught(t, task)

\* the 4000 ms timer fires and the status request is sent
PollTimerFires(t) ==
  /\ tasks[t].pc = "pollDelay"
  /\ lastEvent' = "other"
  /\ UNCHANGED <<pureVars, adminVars>>
  /\ tasks' = [tasks EXCEPT ![t] = [@ EXCEPT !.pc = "pollFetch",
                                            !.nQueries = @ + 1]]
  /\ UNCHANGED <<messages, input, isTyping, nextId, clock>>

\* await fetch(`${API_BASE_URL}/status?jobId=${jobId}`) rejects
PollFetchRejects(t) ==
  /\ tasks[t].pc = "pollFetch"
  /\ lastEvent' = "other"
  /\ UNCHANGED <<pureVars, adminVars>>
  /\ PollThrow(t, [tasks[t] EXCEPT !.lastQuery = "rejected",
                                   !.lastData = JUndef], "poll.fetch")

\* await fetch(...) resolves; the status code is not looked at
PollFetchResolves(t) ==
  /\ tasks[t].pc = "pollFetch"
  /\ lastEvent' = "other"
  /\ UNCHANGED <<pureVars, adminVars>>
  /\ tasks' = [tasks EXCEPT ![t] = [@ EXCEPT !.pc = "pollJson"]]
  /\ UNCHANGED <<messages, input, isTyping, nextId, clock>>

\* await response.json() rejects
PollJsonRejects(t) ==
  /\ tasks[t].pc = "pollJson"
  /\ lastEvent' = "other"
  /\ UNCHANGED <<pureVars, adminVars>>
  /\ PollThrow(t, [tasks[t] EXCEPT !.lastQuery = "undecodable",
                                   !.lastData = JUndef], "poll.json")

\* mutant: the COMPLETE branch storing data.response without normalizing it
AfterTryRaw(task, data) ==
  IF data.t \in {"null", "undefined"}
    THEN [task EXCEPT !.jobStatus = JStr("ERROR")]
    ELSE IF Field(data, "status") = JStr("COMPLETE")
      THEN [task EXCEPT !.jobStatus = Field(data, "status"),
                        !.finalResponse = Field(data, "response")]
      ELSE [task EXCEPT !.jobStatus = Field(data, "status")]

\* lines 79-85 for a decoded body: the values of jobStatus and finalResponse
\* after the try/catch
AfterTry(task, data) ==
  IF data.t \in {"null", "undefined"}
    THEN [task EXCEPT !.jobStatus = CatchStatus]
    ELSE IF Field(data, "status") = JStr("COMPLETE")
      THEN IF resolveResponseText(Field(data, "response")) = Thrown
             THEN [task EXCEPT !.jobStatus = CatchStatus]
             ELSE [task EXCEPT !.jobStatus = Field(data, "status"),
                               !.finalResponse =
                                  resolveResponseText(Field(data, "response"))]
      ELSE [task EXCEPT !.jobStatus = Field(data, "status")]

\* the statement of lines 79-81 that throws on a decoded body, if any
ThrowSite(data) ==
  IF data.t \in {"null", "undefined"} THEN "poll.status"
  ELSE IF /\ Field(data, "status") = JStr("COMPLETE")
          /\ resolveResponseText(Field(data, "response")) = Thrown
    THEN "poll.resolve"
    ELSE "none"

\* await response.json() resolves with the decoded body
PollJsonResolves(t, data) ==
  /\ tasks[t].pc = "pollJson"
  /\ lastEvent' = "other"
  /\ UNCHANGED <<pureVars, adminVars>>
  /\ LET task == [tasks[t] EXCEPT
                    !.lastQuery = "decoded",
                    !.lastData = data,
                    !.nPending = IF Field(data, "status")
                                      \in {JStr("PENDING"), JStr("PROCESSING")}
                                   THEN @ + 1 ELSE @]
     IN IF ThrowSite(data) # "none" /\ ~InTry(ThrowSite(data))
          THEN Uncaught(t, task)
          ELSE LoopHead(t, AfterTry(task, data))

Next ==
  \/ \E str \in Inputs : SetInput(str)
  \/ HandleSend
  \/ \E t \in 1..Len(tasks) : AskFetchRejects(t)
  \/ \E t \in 1..Len(tasks) : \E st \in HttpStatuses : AskFetchResolves(t, st)
  \/ \E t \in 1..Len(tasks) : AskJsonRejects(t)
  \/ \E t \in 1..Len(tasks) : \E body \in AskBodies : AskJsonResolves(t, body)
  \/ \E t \in 1..Len(tasks) : PollTimerFires(t)
  \/ \E t \in 1..Len(tasks) : PollFetchRejects(t)
  \/ \E t \in 1..Len(tasks) : PollFetchResolves(t)
  \/ \E t \in 1..Len(tasks) : PollJsonRejects(t)
  \/ \E t \in 1..Len(tasks) : \E data \in StatusBodies : PollJsonResolves(t, data)

Spec == Init /\ [][Next]_vars

\* every network call and every timer eventually resolves
TaskStep(t) ==
  \/ AskFetchRejects(t)
  \/ \E st \in HttpStatuses : AskFetchResolves(t, st)
  \/ AskJsonRejects(t)
  \/ \E body \in AskBodies : AskJsonResolves(t, body)
  \/ PollTimerFires(t)
  \/ PollFetchRejects(t)
  \/ PollFetchResolves(t)
  \/ PollJsonRejects(t)
  \/ \E data \in StatusBodies : PollJsonResolves(t, data)

FairSpec == Spec /\ \A t \in 1..MaxSubmits : WF_vars(t \in 1..Len(tasks) /\ TaskStep(t))

TypeOK ==
  /\ isTyping \in BOOLEAN
  /\ input \in Inputs
  /\ Len(tasks) <= MaxSubmits
  /\ \A i \in 1..Len(messages) : messages[i].sender \in {"user", "assistant"}

(* ------------------- the earlier variant of the client ----------------- *)
(* The component of src/src/App.jsx, lines 224-517: its messages carry no  *)
(* id and no isStatus (id 0 stands for the absent id), its poller sends    *)
(* the status query first and waits afterwards, and its loop has no        *)
(* attempt budget.  It runs on the variables of the chat component.        *)

EarlierGreetingText == "Hello! I'm your UK Tax Assistant. I can help you with company tax questions, corporation tax rates, allowances, and financial planning guidance. What would you like to know?"

EarlierThinkingText == "Your request has been submitted. I'm processing your query and will have an answer for you shortly."

EarlierFailureText == "An error occurred while processing your request. Please try again."

EarlierUnexpected == "An unexpected error occurred."

\* text: `I'm experiencing a technical issue: ${err.message}. Please try again in a moment.`
EarlierErrorText(errMessage) ==
  JStr("I'm experiencing a technical issue: " \o errMessage
         \o ". Please try again in a moment.")

\* pollJobStatus(data.jobId) with data null
ReadJobIdMsg == "Cannot read properties of null (reading 'jobId')"

\* data.error with data null
ReadErrorMsg == "Cannot read properties of null (reading 'error')"

\* decoded bodies of the reply to POST /ask
EarlierAskBodies ==
  { JObj(<< <<"jobId", JStr("job-1")>> >>),
    JObj(<< <<"error", JStr("Rate limit exceeded")>> >>),
    JNull }

\* decoded bodies of the reply to GET /status
EarlierStatusBodies ==
  { JObj(<< <<"status", JStr("PENDING")>> >>),
    JObj(<< <<"status", JStr("PROCESSING")>> >>),
    JObj(<< <<"status", JStr("ERROR")>> >>),
    JObj(<< <<"status", JStr("COMPLETE")>>, <<"response", AnswerString>> >>),
    JNull }

\* while (jobStatus === "PENDING")
EarlierLoopContinues(jobStatus) == jobStatus = JStr("PENDING")

\* the locals of one handleSend call and of the pollJobStatus call it starts,
\* with the position of the thinking message and the counts of the status
\* queries sent and of the delays waited
EarlierNewTask ==
  [pc |-> "ask", httpStatus |-> 0, jobStatus |-> JStr("PENDING"),
   jobResponse |-> JNull, thinkingAt |-> 0, nQueries |-> 0, nDelays |-> 0,
   lastQuery |-> "none", lastData |-> JUndef]

EarlierRetire(ts) ==
  [i \in 1..Len(ts) |-> IF ts[i].pc = "done"
                          THEN [EarlierNewTask EXCEPT !.pc = "retired"]
                          ELSE ts[i]]

EarlierInit ==
  /\ messages = << Message(0, "assistant", JStr(EarlierGreetingText), 1, FALSE) >>
  /\ input = ""
  /\ isTyping = FALSE
  /\ tasks = <<>>
  /\ nextId = 2
  /\ clock = 2
  /\ lastEvent = "other"
  /\ PureIdle
  /\ AdminIdle

\* handleSend up to its first await (lines 301-320)
EarlierHandleSend ==
  /\ lastEvent' = "handleSend"
  /\ UNCHANGED <<pureVars, adminVars>>
  /\ IF Rejected(input, isTyping)
       THEN UNCHANGED <<messages, input, isTyping, tasks, nextId, clock>>
       ELSE /\ Len(tasks) < MaxSubmits
            /\ messages' = Append(messages,
                 Message(0, "user", JStr(Trim(input)), clock, FALSE))
            /\ input' = ""
            /\ isTyping' = TRUE
            /\ tasks' = Append(EarlierRetire(tasks), EarlierNewTask)
            /\ clock' = clock + 1
            /\ UNCHANGED nextId

\* the catch block of handleSend (lines 331-343)
EarlierSubmitCatch(t, task, errMessage) ==
  /\ isTyping' = FALSE
  /\ messages' = Append(messages,
       Message(0, "assistant", EarlierErrorText(errMessage), clock, FALSE))
  /\ tasks' = [tasks EXCEPT ![t] = [task EXCEPT !.pc = "done"]]
  /\ clock' = clock + 1
  /\ UNCHANGED <<input, nextId>>

\* pollJobStatus up to its first await (lines 248-262): the thinking message,
\* the locals, the loop head and the first status request
EarlierStartPoll(t, task) ==
  /\ messages' = Append(messages,
       Message(0, "assistant", JStr(EarlierThinkingText), clock, FALSE))
  /\ tasks' = [tasks EXCEPT ![t] =
       [task EXCEPT !.thinkingAt = Len(messages) + 1,
                 !.jobStatus = JStr("PENDING"),
                 !.jobResponse = JNull,
                 !.nQueries = 1,
                 !.pc = "pollFetch"]]
  /\ clock' = clock + 1
  /\ UNCHANGED <<input, isTyping, nextId>>

\* number of status queries one job of the earlier variant is followed for
\* (its loop has no budget of its own)
MaxPolls == 3

\* await fetch(`${API_BASE_URL}/ask`) rejects
EarlierAskFetchRejects(t) ==
  /\ tasks[t].pc = "ask"
  /\ lastEvent' = "other"
  /\ UNCHANGED <<pureVars, adminVars>>
  /\ EarlierSubmitCatch(t, tasks[t], FetchFailedMsg)

\* await fetch(`${API_BASE_URL}/ask`) resolves with a status code
EarlierAskFetchResolves(t, st) ==
  /\ tasks[t].pc = "ask"
  /\ lastEvent' = "other"
  /\ UNCHANGED <<pureVars, adminVars>>
  /\ tasks' = [tasks EXCEPT ![t] = [@ EXCEPT !.pc = "askJson", !.httpStatus = st]]
  /\ UNCHANGED <<messages, input, isTyping, nextId, clock>>

\* await response.json() rejects, in either branch
EarlierAskJsonRejects(t) ==
  /\ tasks[t].pc = "askJson"
  /\ lastEvent' = "other"
  /\ UNCHANGED <<pureVars, adminVars>>
  /\ EarlierSubmitCatch(t, tasks[t], JsonParseMsg)

\* await response.json() resolves, in either branch (lines 322-329)
EarlierAskJsonResolves(t, body) ==
  /\ tasks[t].pc = "askJson"
  /\ lastEvent' = "other"
  /\ UNCHANGED <<pureVars, adminVars>>
  /\ IF tasks[t].httpStatus = 202
       THEN IF body.t \in {"null", "undefined"}
              THEN EarlierSubmitCatch(t, tasks[t], ReadJobIdMsg)
              ELSE EarlierStartPoll(t, tasks[t])
       ELSE IF body.t \in {"null", "undefined"}
              THEN EarlierSubmitCatch(t, tasks[t], ReadErrorMsg)
              ELSE EarlierSubmitCatch(t, tasks[t],
                     IF Truthy(Field(body, "error"))
                       THEN ToStr(Field(body, "error"))
                       ELSE EarlierUnexpected)

\* the end of the try/catch of a loop pass: the 5000 ms delay starts
EarlierStartDelay(t, task) ==
  /\ tasks' = [tasks EXCEPT ![t] = [task EXCEPT !.pc = "pollDelay"]]
  /\ UNCHANGED <<messages, input, isTyping, nextId, clock>>

\* await fetch(`${API_BASE_URL}/status?jobId=${jobId}`) rejects
EarlierPollFetchRejects(t) ==
  /\ tasks[t].pc = "pollFetch"
  /\ lastEvent' = "other"
  /\ UNCHANGED <<pureVars, adminVars>>
  /\ EarlierStartDelay(t, [tasks[t] EXCEPT !.jobStatus = JStr("ERROR"),
                                           !.lastQuery = "rejected",
                                           !.lastData = JUndef])

\* await fetch(...) resolves; the status code is not looked at
EarlierPollFetchResolves(t) ==
  /\ tasks[t].pc = "pollFetch"
  /\ lastEvent' = "other"
  /\ UNCHANGED <<pureVars, adminVars>>
  /\ tasks' = [tasks EXCEPT ![t] = [@ EXCEPT !.pc = "pollJson"]]
  /\ UNCHANGED <<messages, input, isTyping, nextId, clock>>

\* await response.json() rejects
EarlierPollJsonRejects(t) ==
  /\ tasks[t].pc = "pollJson"
  /\ lastEvent' = "other"
  /\ UNCHANGED <<pureVars, adminVars>>
  /\ EarlierStartDelay(t, [tasks[t] EXCEPT !.jobStatus = JStr("ERROR"),
                                           !.lastQuery = "undecodable",
                                           !.lastData = JUndef])

\* lines 265-268 for a decoded body, with the catch block of lines 270-273
EarlierAfterTry(task, data) ==
  IF data.t \in {"null", "undefined"}
    THEN [task EXCEPT !.jobStatus = JStr("ERROR")]
    ELSE IF Field(data, "status") = JStr("COMPLETE")
      THEN [task EXCEPT !.jobStatus = Field(data, "status"),
                        !.jobResponse = Field(data, "response")]
      ELSE [task EXCEPT !.jobStatus = Field(data, "status")]

\* await response.json() resolves with the decoded body
EarlierPollJsonResolves(t, data) ==
  /\ tasks[t].pc = "pollJson"
  /\ lastEvent' = "other"
  /\ UNCHANGED <<pureVars, adminVars>>
  /\ EarlierStartDelay(t, [EarlierAfterTry(tasks[t], data) EXCEPT
                             !.lastQuery = "decoded",
                             !.lastData = data])

\* the 5000 ms timer fires: the loop head, then either the next status
\* request or the code after the loop (lines 278-298)
EarlierPollTimerFires(t) ==
  /\ tasks[t].pc = "pollDelay"
  /\ lastEvent' = "other"
  /\ UNCHANGED <<pureVars, adminVars>>
  /\ IF EarlierLoopContinues(tasks[t].jobStatus)
       THEN /\ tasks[t].nQueries < MaxPolls
            /\ tasks' = [tasks EXCEPT ![t] = [@ EXCEPT !.pc = "pollFetch",
                                                      !.nDelays = @ + 1,
                                                      !.nQueries = @ + 1]]
            /\ UNCHANGED <<messages, input, isTyping, nextId, clock>>
       ELSE /\ isTyping' = FALSE
            /\ messages' = Append(messages,
                 Message(0, "assistant",
                         IF tasks[t].jobStatus = JStr("COMPLETE")
                           THEN tasks[t].jobResponse
                           ELSE JStr(EarlierFailureText),
                         clock, FALSE))
            /\ tasks' = [tasks EXCEPT ![t] = [@ EXCEPT !.pc = "done",
                                                      !.nDelays = @ + 1]]
            /\ clock' = clock + 1
            /\ UNCHANGED <<input, nextId>>

EarlierNext ==
  \/ \E str \in Inputs : SetInput(str)
  \/ EarlierHandleSend
  \/ \E t \in 1..Len(tasks) : EarlierAskFetchRejects(t)
  \/ \E t \in 1..Len(tasks) : \E st \in HttpStatuses : EarlierAskFetchResolves(t, st)
  \/ \E t \in 1..Len(tasks) : EarlierAskJsonRejects(t)
  \/ \E t \in 1..Len(tasks) : \E body \in EarlierAskBodies : EarlierAskJsonResolves(t, body)
  \/ \E t \in 1..Len(tasks) : EarlierPollFetchRejects(t)
  \/ \E t \in 1..Len(tasks) : EarlierPollFetchResolves(t)
  \/ \E t \in 1..Len(tasks) : EarlierPollJsonRejects(t)
  \/ \E t \in 1..Len(tasks) : \E data \in EarlierStatusBodies : EarlierPollJsonResolves(t, data)
  \/ \E t \in 1..Len(tasks) : EarlierPollTimerFires(t)

EarlierSpec == EarlierInit /\ [][EarlierNext]_vars

(* ------------------------------ claims -------------------------------- *)

Live(t) == tasks[t].pc # "retired"

Polling(t) == tasks[t].pc \in {"pollDelay", "pollFetch", "pollJson"}

LastMsg == messages[Len(messages)]

HasId(id) == \E i \in 1..Len(messages) : messages[i].id = id

MsgWithId(id) == messages[CHOOSE i \in 1..Len(messages) : messages[i].id = id]

Placeholders(id) == {i \in 1..Len(messages) : messages[i].id = id /\ messages[i].isStatus}

IsPendingStatus(v) == v \in {JStr("PENDING"), JStr("PROCESSING")}

\* C1: a handleSend call made while isTyping is true, or with input that
\* trims to the empty string, changes nothing: the conversation, the flag and
\* the input are as before, and no request is issued (no call record is
\* created and none advances).
C1_RejectedSendIsNoop ==
  [][(lastEvent' = "handleSend" /\ (isTyping \/ Trim(input) = ""))
       => UNCHANGED <<messages, isTyping, input, tasks, nextId, clock>>]_vars

\* a rejected call with a non-blank input while a response is awaited
C1_Witness ==
  /\ lastEvent = "handleSend"
  /\ isTyping
  /\ Trim(input) # ""
  /\ \E t \in 1..Len(tasks) : Polling(t)

\* C2: whenever isTyping is true it eventually becomes false again, whatever
\* the backend answers, given that every network call and timer resolves.
C2_FlagEventuallyCleared == isTyping ~> ~isTyping

\* the flag is clear again after a job that never completed
C2_Witness ==
  /\ ~isTyping
  /\ \E t \in 1..Len(tasks) :
       tasks[t].pc = "done" /\ tasks[t].nPending = maxAttempts

\* C3: after a 200 reply whose body is an answer payload, the submission ends
\* with one terminal assistant message holding resolveResponseText(body),
\* and no job was created.
C3_ImmediateAnswerAppended ==
  \A t \in 1..Len(tasks) :
    (/\ tasks[t].pc = "done"
     /\ tasks[t].httpStatus = 200
     /\ tasks[t].askResult = "decoded"
     /\ tasks[t].askBody \in {AnswerString, AnswerObject, AnswerUnknownShape})
    => /\ LastMsg.id = tasks[t].finalId
       /\ LastMsg.sender = "assistant"
       /\ LastMsg.text = resolveResponseText(tasks[t].askBody)
       /\ tasks[t].thinkingId = 0
       /\ tasks[t].nQueries = 0

\* C4: when a status query returns COMPLETE with a response r that
\* resolveResponseText accepts, after k-1 results in {PENDING, PROCESSING},
\* the poller stops there, it has made exactly k <= maxAttempts queries, and
\* the last message of the conversation has the text resolveResponseText(r).
C4_CompleteAfterKQueries ==
  \A t \in 1..Len(tasks) :
    (/\ Live(t)
     /\ tasks[t].lastQuery = "decoded"
     /\ Field(tasks[t].lastData, "status") = JStr("COMPLETE")
     /\ Field(tasks[t].lastData, "response").t \notin {"null", "undefined"})
    => /\ tasks[t].pc = "done"
       /\ tasks[t].nQueries = tasks[t].nPending + 1
       /\ tasks[t].nQueries \in 1..maxAttempts
       /\ LastMsg.id = tasks[t].finalId
       /\ LastMsg.sender = "assistant"
       /\ ~LastMsg.isStatus
       /\ LET r == Field(tasks[t].lastData, "response")
          IN LastMsg.text =
               (IF r.t = "string" THEN r
                ELSE IF Truthy(Field(r, "text")) THEN Field(r, "text")
                ELSE JStr(Stringify(r)))

\* COMPLETE arrives on the last permitted query, with an object response
C4_Witness ==
  \E t \in 1..Len(tasks) :
    /\ tasks[t].pc = "done"
    /\ tasks[t].nQueries = maxAttempts
    /\ tasks[t].nPending = maxAttempts - 1
    /\ tasks[t].lastData =
         JObj(<< <<"status", JStr("COMPLETE")>>, <<"response", AnswerObject>> >>)
    /\ LastMsg.text = JStr("Pay by 31 January")

\* C5: no job is ever queried more than maxAttempts times; a poller whose
\* every query returned PENDING or PROCESSING stops after exactly
\* maxAttempts queries, having replaced the placeholder once by the
\* generic-failure message.
C5_TimeoutAfterMaxAttempts ==
  \A t \in 1..Len(tasks) :
    /\ tasks[t].nQueries <= 15
    /\ (Live(t) /\ tasks[t].nPending = 15) => tasks[t].pc = "done"
    /\ (/\ tasks[t].pc = "done"
        /\ tasks[t].thinkingId # 0
        /\ tasks[t].nPending = tasks[t].nQueries)
       => /\ tasks[t].nQueries = 15
          /\ tasks[t].nReplaced = 1
          /\ Placeholders(tasks[t].thinkingId) = {}
          /\ LastMsg.id = tasks[t].finalId
          /\ LastMsg.text = JStr("A technical error occurred. Please try again.")

\* fifteen PENDING/PROCESSING results, then the generic failure
C5_Witness ==
  \E t \in 1..Len(tasks) :
    /\ tasks[t].pc = "done"
    /\ tasks[t].nPending = 15
    /\ tasks[t].nQueries = 15
    /\ LastMsg.text = JStr(DefaultFinalResponse)

\* C6: the placeholder of a job is replaced at most once; it is still in the
\* conversation, exactly once, for as long as the poller runs; the
\* replacement has happened exactly once when the poller has returned, and
\* never while the last status is PENDING or PROCESSING with attempts left.
C6_ReplacedOnceAfterTerminal ==
  \A t \in 1..Len(tasks) :
    /\ tasks[t].nReplaced <= 1
    /\ Polling(t) => /\ tasks[t].nReplaced = 0
                     /\ Cardinality(Placeholders(tasks[t].thinkingId)) = 1
    /\ (tasks[t].pc = "done" /\ tasks[t].thinkingId # 0)
         => /\ tasks[t].nReplaced = 1
            /\ ~HasId(tasks[t].thinkingId)
            /\ HasId(tasks[t].finalId)
            /\ ~MsgWithId(tasks[t].finalId).isStatus
    /\ tasks[t].nReplaced = 1
         => \/ ~IsPendingStatus(tasks[t].jobStatus)
            \/ tasks[t].attempts >= 15

\* a poller that has returned after a COMPLETE on its second query
C6_Witness ==
  \E t \in 1..Len(tasks) :
    /\ tasks[t].pc = "done"
    /\ tasks[t].nReplaced = 1
    /\ tasks[t].nQueries = 2
    /\ tasks[t].jobStatus = JStr("COMPLETE")

\* C7: applying the replacement update of a job a second time, after it has
\* been applied once, leaves the conversation as it is.
C7_ReplaceIsIdempotent ==
  \A t \in 1..Len(tasks) :
    (tasks[t].pc = "done" /\ tasks[t].nReplaced = 1)
    => ReplaceStatus(messages, tasks[t].thinkingId,
         Message(nextId, "assistant", tasks[t].finalResponse, clock, FALSE))
       = messages

Failed(t) ==
  /\ tasks[t].pc = "done"
  /\ \/ tasks[t].thinkingId = 0
     \/ tasks[t].jobStatus # JStr("COMPLETE")

\* C9: the final message of every failed submission (rejected submission,
\* transport failure, job timeout, job failure) satisfies isError, and the
\* final message of a job that completed with an answer does not.
C9_FailuresCarryErrorConvention ==
  \A t \in 1..Len(tasks) :
    /\ Failed(t) => isError(MsgWithId(tasks[t].finalId))
    /\ (tasks[t].pc = "done" /\ ~Failed(t)) => ~isError(MsgWithId(tasks[t].finalId))

\* C10: a status query that fails in transport or in decoding, the first or
\* a later one, ends the poller at once: it has returned, no other query
\* follows, and the placeholder is replaced by the generic-failure message.
C10_PollFailureIsTerminal ==
  \A t \in 1..Len(tasks) :
    tasks[t].lastQuery \in {"rejected", "undecodable"}
    => /\ tasks[t].pc = "done"
       /\ tasks[t].nReplaced = 1
       /\ ~HasId(tasks[t].thinkingId)
       /\ LastMsg.id = tasks[t].finalId
       /\ LastMsg.text = JStr("A technical error occurred. Please try again.")

\* the third status query cannot be decoded
C10_Witness ==
  \E t \in 1..Len(tasks) :
    /\ tasks[t].lastQuery = "undecodable"
    /\ tasks[t].nQueries = 3
    /\ tasks[t].nPending = 2
    /\ tasks[t].pc = "done"

(* ------------------ resolveResponseText on its own -------------------- *)

\* payloads a decoded body can be, before any wrapping
BasePayloads ==
  { JStr("Hello"), JStr(""), JNum("5"), JNum("0"), JBool("true"), JBool("false"),
    JNull, JObj(<<>>), JArr(<<>>) }

\* the field names envelopes wrap their content in
WrapKeys == {"text", "response", "answer"}

ResolveInit == ChatInit /\ PureIdle /\ AdminIdle

\* the call on a decoded payload
PickPayload(v) ==
  /\ payload = JUndef
  /\ payload' = v
  /\ resolved' = resolveResponseText(payload')
  /\ UNCHANGED <<chatVars, adminVars, ptext, segments, steps>>

\* the call on the payload wrapped in an object under one field
WrapPayload(key) ==
  /\ steps < MaxWraps
  /\ payload # JUndef
  /\ payload' = JObj(<< <<key, payload>> >>)
  /\ resolved' = resolveResponseText(payload')
  /\ steps' = steps + 1
  /\ UNCHANGED <<chatVars, adminVars, ptext, segments>>

\* the call on the payload wrapped in a one-element array
WrapInArray ==
  /\ steps < MaxWraps
  /\ payload # JUndef
  /\ payload' = JArr(<<payload>>)
  /\ resolved' = resolveResponseText(payload')
  /\ steps' = steps + 1
  /\ UNCHANGED <<chatVars, adminVars, ptext, segments>>

\* the call on the payload encoded once more, as a JSON string
EncodePayload ==
  /\ steps < MaxWraps
  /\ payload.t \in {"object", "array"}
  /\ payload' = JStr(Stringify(payload))
  /\ resolved' = resolveResponseText(payload')
  /\ steps' = steps + 1
  /\ UNCHANGED <<chatVars, adminVars, ptext, segments>>

ResolveNext ==
  \/ \E v \in BasePayloads : PickPayload(v)
  \/ \E key \in WrapKeys : WrapPayload(key)
  \/ WrapInArray
  \/ EncodePayload

ResolveSpec == ResolveInit /\ [][ResolveNext]_vars

\* v is an object that holds a non-empty string under "text"
HasTextString(v) ==
  /\ v.t = "object"
  /\ Field(v, "text").t = "string"
  /\ Field(v, "text").s # ""

\* v is an object with one field, which is not "text"
IsWrapper(v) == v.t = "object" /\ Len(v.f) = 1 /\ v.f[1][1] # "text"

\* C11: for every decoded payload (string, object, null, number, boolean,
\* array) resolveResponseText returns, and what it returns is a non-empty
\* string.
C11_ResolveIsTotal ==
  payload # JUndef
  => /\ resolved # Thrown
     /\ resolved.t = "string"
     /\ resolved.s # ""

\* C12: for a payload that holds the text field under one or two levels of
\* wrapping, and for a payload that is the JSON encoding of an object with a
\* text field, resolveResponseText returns the inner text.
C12_ResolveUnwrapsEnvelopes ==
  /\ (IsWrapper(payload) /\ HasTextString(payload.f[1][2]))
       => resolved = Field(payload.f[1][2], "text")
  /\ (/\ IsWrapper(payload)
      /\ IsWrapper(payload.f[1][2])
      /\ HasTextString(payload.f[1][2].f[1][2]))
       => resolved = Field(payload.f[1][2].f[1][2], "text")
  /\ payload = JStr(Stringify(JObj(<< <<"text", JStr("Hello")>> >>)))
       => resolved = JStr("Hello")

\* C13: a string payload is returned unchanged, an object with a (truthy)
\* text field yields that field, an object without a text field yields its
\* JSON form, and the result is a string for every string or object payload.
C13_ResolveShapes ==
  /\ payload.t = "string" => resolved = payload
  /\ (payload.t = "object" /\ Truthy(Field(payload, "text")))
       => resolved = Field(payload, "text")
  /\ (payload.t = "object" /\ Field(payload, "text").t = "undefined")
       => resolved = JStr(Stringify(payload))
  /\ payload.t \in {"string", "object"} => resolved.t = "string"

(* ----------------------- parseMessage on its own ----------------------- *)

\* mutant: the dot of the pattern matching line terminators too (flag s)
IsLineTerminatorNever(c) == FALSE

\* the characters the dot of a regular expression does not match
IsLineTerminator(c) == c \in {"\n", "\r"}

\* the literal head of the pattern, \[source:
Opener == "[source:"

OpensAt(str, i) ==
  i + Len(Opener) - 1 <= Len(str) /\ SubSeq(str, i, i + Len(Opener) - 1) = Opener

RECURSIVE CloseFrom(_, _)
\* .*?\] tried from position j: the index of the first "]" that is reached
\* without crossing a line terminator, 0 when there is none
CloseFrom(str, j) ==
  IF j > Len(str) THEN 0
  ELSE IF SubSeq(str, j, j) = "]" THEN j
  ELSE IF IsLineTerminator(SubSeq(str, j, j)) THEN 0
  ELSE CloseFrom(str, j + 1)

RECURSIVE FirstMatch(_, _)
\* the leftmost match of \[source:.*?\] that starts at i or later, as
\* <<first index, last index>>, <<0, 0>> when there is none
FirstMatch(str, i) ==
  IF i > Len(str) THEN <<0, 0>>
  ELSE IF OpensAt(str, i) /\ CloseFrom(str, i + Len(Opener)) # 0
    THEN <<i, CloseFrom(str, i + Len(Opener))>>
    ELSE FirstMatch(str, i + 1)

\* mutant: the split with the empty strings filtered out
RECURSIVE SplitOnMarkersNoEmpty(_)
SplitOnMarkersNoEmpty(str) ==
  LET m == FirstMatch(str, 1)
  IN IF m[1] = 0 THEN (IF str = "" THEN <<>> ELSE <<str>>)
     ELSE (IF m[1] = 1 THEN <<>> ELSE <<SubSeq(str, 1, m[1] - 1)>>)
          \o <<SubSeq(str, m[1], m[2])>>
          \o SplitOnMarkersNoEmpty(SubSeq(str, m[2] + 1, Len(str)))

RECURSIVE SplitOnMarkers(_)
\* text.split(/(\[source:.*?\])/g): the pieces between the matches, with each
\* match (the capture group) kept between them
SplitOnMarkers(str) ==
  LET m == FirstMatch(str, 1)
  IN IF m[1] = 0 THEN <<str>>
     ELSE <<SubSeq(str, 1, m[1] - 1), SubSeq(str, m[1], m[2])>>
          \o SplitOnMarkers(SubSeq(str, m[2] + 1, Len(str)))

RECURSIVE LineEnd(_, _)
\* the index of the first "\n" at i or later, 0 when there is none
LineEnd(str, i) ==
  IF i > Len(str) THEN 0
  ELSE IF SubSeq(str, i, i) = "\n" THEN i
  ELSE LineEnd(str, i + 1)

\* mutant: the lines of a piece without the empty ones
RECURSIVE SplitLinesNoEmpty(_)
SplitLinesNoEmpty(str) ==
  LET e == LineEnd(str, 1)
  IN IF e = 0 THEN (IF str = "" THEN <<>> ELSE <<str>>)
     ELSE (IF e = 1 THEN <<>> ELSE <<SubSeq(str, 1, e - 1)>>)
          \o SplitLinesNoEmpty(SubSeq(str, e + 1, Len(str)))

RECURSIVE SplitLines(_)
\* part.split("\n")
SplitLines(str) ==
  LET e == LineEnd(str, 1)
  IN IF e = 0 THEN <<str>>
     ELSE <<SubSeq(str, 1, e - 1)>> \o SplitLines(SubSeq(str, e + 1, Len(str)))

\* mutant: the captured text taken as it is
CitationTextRaw(inner) == inner

\* const citationText = match[1].trim()
CitationText(inner) == Trim(inner)

\* the callback of parts.map: a Citation element for a piece the pattern
\* matches in, else the lines of the piece, a <br /> before each but the first
Segment(part) ==
  LET m == FirstMatch(part, 1)
  IN IF m[1] # 0
       THEN [kind |-> "Citation",
             text |-> CitationText(SubSeq(part, m[1] + Len(Opener), m[2] - 1)),
             lines |-> <<>>]
       ELSE [kind |-> "Text", text |-> "", lines |-> SplitLines(part)]

\* const parseMessage = (text) => ...
parseMessage(str) ==
  LET parts == SplitOnMarkers(str)
  IN [i \in 1..Len(parts) |-> Segment(parts[i])]

\* the value of a segment: the citation text, or the text the lines and the
\* breaks between them render
SegValue(seg) ==
  IF seg.kind = "Citation" THEN seg.text ELSE JoinStr(seg.lines, "\n")

\* the pieces message texts are put together from
Pieces == {"A ", "[source: X ]", "[source:", "]", "\n"}

\* parseMessage is called on the empty text
ParseInit ==
  /\ ChatInit
  /\ AdminIdle
  /\ payload = JUndef
  /\ resolved = JUndef
  /\ ptext = ""
  /\ segments = parseMessage(ptext)
  /\ steps = 0

\* the call on the text with one more piece
AppendPiece(piece) ==
  /\ steps < MaxPieces
  /\ ptext' = ptext \o piece
  /\ segments' = parseMessage(ptext')
  /\ steps' = steps + 1
  /\ UNCHANGED <<chatVars, adminVars, payload, resolved>>

ParseNext == \E piece \in Pieces : AppendPiece(piece)

ParseSpec == ParseInit /\ [][ParseNext]_vars

(* The markers of a text, stated position by position: a marker opens at i *)
(* with "[source:" and closes at the first "]" after it, on the same line;  *)
(* markers are taken from left to right and do not overlap.                *)

Char(str, i) == SubSeq(str, i, i)

ClosesAt(str, i, j) ==
  /\ i + 7 <= Len(str)
  /\ SubSeq(str, i, i + 7) = "[source:"
  /\ j \in (i + 8)..Len(str)
  /\ Char(str, j) = "]"
  /\ \A k \in (i + 8)..(j - 1) : Char(str, k) \notin {"]", "\n", "\r"}

WellFormedAt(str, i) == \E j \in (i + 8)..Len(str) : ClosesAt(str, i, j)

MalformedAt(str, i) ==
  /\ i + 7 <= Len(str)
  /\ SubSeq(str, i, i + 7) = "[source:"
  /\ ~WellFormedAt(str, i)

RECURSIVE MarkersFrom(_, _)
MarkersFrom(str, i) ==
  IF i > Len(str) THEN <<>>
  ELSE IF WellFormedAt(str, i)
    THEN LET j == CHOOSE j \in (i + 8)..Len(str) : ClosesAt(str, i, j)
         IN <<<<i, j>>>> \o MarkersFrom(str, j + 1)
    ELSE MarkersFrom(str, i + 1)

\* the markers of the text being parsed, in order, as <<first, last>> indices
Markers == MarkersFrom(ptext, 1)

\* the first and last index of the n-th stretch of text outside the markers
GapStart(n) == IF n = 1 THEN 1 ELSE Markers[n - 1][2] + 1

GapEnd(n) == IF n = Len(Markers) + 1 THEN Len(ptext) ELSE Markers[n][1] - 1

Gap(n) == SubSeq(ptext, GapStart(n), GapEnd(n))

TextSegments == SelectSeq(segments, LAMBDA seg : seg.kind = "Text")

CitationSegments == SelectSeq(segments, LAMBDA seg : seg.kind = "Citation")

ExampleSegments == parseMessage("A [source: X] B [source: Y] C")

\* C14: a text with k markers is parsed into 2k+1 segments, Text and
\* Citation alternating in the order of the text, the n-th Citation holding
\* the trimmed text of the n-th marker and the n-th Text the text before it;
\* "A [source: X] B [source: Y] C" gives Text "A ", Citation "X", Text " B ",
\* Citation "Y", Text " C".
C14_SegmentsAlternateInOrder ==
  /\ Len(segments) = 2 * Len(Markers) + 1
  /\ \A n \in 1..Len(Markers) :
       /\ segments[2 * n].kind = "Citation"
       /\ SegValue(segments[2 * n]) =
            Trim(SubSeq(ptext, Markers[n][1] + 8, Markers[n][2] - 1))
  /\ \A n \in 1..(Len(Markers) + 1) :
       /\ segments[2 * n - 1].kind = "Text"
       /\ SegValue(segments[2 * n - 1]) = Gap(n)
  /\ [n \in 1..Len(ExampleSegments) |-> ExampleSegments[n].kind]
       = <<"Text", "Citation", "Text", "Citation", "Text">>
  /\ [n \in 1..Len(ExampleSegments) |-> SegValue(ExampleSegments[n])]
       = <<"A ", "X", " B ", "Y", " C">>

\* two markers with text before, between and after them
C14_Witness ==
  /\ ptext = "A [source: X ]A [source: X ]A "
  /\ [n \in 1..Len(segments) |-> SegValue(segments[n])] = <<"A ", "X", "A ", "X", "A ">>

\* C15: the Text segments, concatenated in order, are the text with every
\* marker taken out, and there is one Text segment more than there are
\* Citation segments: an empty stretch before, between or after markers is
\* an empty Text segment.
C15_TextRoundTrip ==
  /\ JoinStr([n \in 1..Len(TextSegments) |-> SegValue(TextSegments[n])], "")
       = JoinStr([n \in 1..(Len(Markers) + 1) |-> Gap(n)], "")
  /\ Len(TextSegments) = Len(CitationSegments) + 1
  /\ Len(CitationSegments) = Len(Markers)

\* two adjacent markers and nothing else: three empty Text segments
C15_Witness ==
  /\ ptext = "[source: X ][source: X ]"
  /\ Len(segments) = 5
  /\ \A n \in {1, 3, 5} : segments[n].kind = "Text" /\ SegValue(segments[n]) = ""

\* C16: a text without markers, the empty text included, is parsed into one
\* Text segment whose value is the text.
C16_NoMarkerOneText ==
  Markers = <<>>
  => /\ Len(segments) = 1
     /\ segments[1].kind = "Text"
     /\ SegValue(segments[1]) = ptext

\* a text of several lines, one of them empty, and no marker
C16_Witness ==
  /\ ptext = "A \n\nA "
  /\ Markers = <<>>
  /\ segments = << [kind |-> "Text", text |-> "", lines |-> <<"A ", "", "A ">>] >>

\* C17: a "[source:" that no "]" closes on its line yields no Citation: there
\* are as many Citation segments as well-formed markers, and the characters
\* of the unclosed opener are in the Text segment of the stretch it lies in,
\* at their place.
C17_MalformedMarkerIsText ==
  \A i \in 1..Len(ptext) :
    MalformedAt(ptext, i)
    => /\ Len(CitationSegments) = Len(Markers)
       /\ Len(segments) = 2 * Len(Markers) + 1
       /\ \E n \in 1..(Len(Markers) + 1) :
            /\ GapStart(n) <= i
            /\ i + 7 <= GapEnd(n)
            /\ segments[2 * n - 1].kind = "Text"
            /\ SubSeq(SegValue(segments[2 * n - 1]),
                      i - GapStart(n) + 1, i - GapStart(n) + 8) = "[source:"

\* an opener whose "]" is on the next line, followed by a well-formed marker
C17_Witness ==
  /\ ptext = "[source:\n][source: X ]"
  /\ MalformedAt(ptext, 1)
  /\ Len(segments) = 3
  /\ SegValue(segments[1]) = "[source:\n]"
  /\ segments[2].kind = "Citation"

(* ------------------- claims about the conversation -------------------- *)

IndexOf(id) == CHOOSE i \in 1..Len(messages) : messages[i].id = id

\* C18: the user message of an accepted submission is in the conversation
\* from the moment the request is sent (it is the last message while the
\* request is in flight), it stays there when the request fails, and it
\* stands before the placeholder and before the final message of that
\* submission.
C18_UserMessageFirst ==
  \A t \in 1..Len(tasks) :
    Live(t)
    => /\ HasId(tasks[t].userId)
       /\ MsgWithId(tasks[t].userId).sender = "user"
       /\ tasks[t].pc = "ask" => LastMsg.id = tasks[t].userId
       /\ (tasks[t].thinkingId # 0 /\ HasId(tasks[t].thinkingId))
            => IndexOf(tasks[t].userId) < IndexOf(tasks[t].thinkingId)
       /\ tasks[t].finalId # 0
            => /\ HasId(tasks[t].finalId)
               /\ IndexOf(tasks[t].userId) < IndexOf(tasks[t].finalId)

\* the request was rejected by the network: the user message is there, right
\* before the error message
C18_Witness ==
  \E t \in 1..Len(tasks) :
    /\ tasks[t].pc = "done"
    /\ tasks[t].askResult = "rejected"
    /\ Len(messages) >= 3
    /\ messages[Len(messages) - 1].id = tasks[t].userId
    /\ messages[Len(messages) - 1].text = JStr("q")
    /\ LastMsg.id = tasks[t].finalId

\* C19: at no time is more than one call of pollJobStatus running, nor more
\* than one submission in flight, and the conversation never holds more than
\* one placeholder.
C19_AtMostOneJob ==
  /\ Cardinality({t \in 1..Len(tasks) : Polling(t)}) <= 1
  /\ Cardinality({t \in 1..Len(tasks) : tasks[t].pc \notin {"done", "retired"}}) <= 1
  /\ Cardinality({i \in 1..Len(messages) : messages[i].isStatus}) <= 1

\* a second job is polled, the first one is over, and a submit event with a
\* non-blank input has just been turned down
C19_Witness ==
  /\ Len(tasks) = 2
  /\ tasks[1].pc = "retired"
  /\ Polling(2)
  /\ lastEvent = "handleSend"
  /\ Trim(input) # ""
  /\ Cardinality({i \in 1..Len(messages) : messages[i].isStatus}) = 1

NonStatus(msgs) == SelectSeq(msgs, LAMBDA m : ~m.isStatus)

IsPrefix(a, b) == Len(a) <= Len(b) /\ SubSeq(b, 1, Len(a)) = a

\* C20: in every step the user messages and the final assistant messages of
\* the conversation stay as they are, fields and order, and new ones come
\* after them; only a placeholder is ever removed.
C20_AppendOnlyButPlaceholder ==
  [][IsPrefix(NonStatus(messages), NonStatus(messages'))]_vars

\* two submissions done, the second one through a job whose placeholder has
\* been replaced
C20_Witness ==
  /\ Len(messages) = 5
  /\ \A i \in 1..Len(messages) : ~messages[i].isStatus
  /\ Len(tasks) = 2
  /\ tasks[2].pc = "done"
  /\ tasks[2].nReplaced = 1

(* ---------------------- claims about the poller ----------------------- *)

\* the job of call t has reached a terminal outcome: its poller has returned,
\* or the last status query failed, or it reported something other than
\* PENDING or PROCESSING
Terminal(t) ==
  /\ Live(t)
  /\ tasks[t].thinkingId # 0
  /\ \/ tasks[t].pc = "done"
     \/ tasks[t].lastQuery \in {"rejected", "undecodable"}
     \/ /\ tasks[t].lastQuery = "decoded"
        /\ ~IsPendingStatus(Field(tasks[t].lastData, "status"))

\* C21: once a job has reached a terminal outcome its poller has returned,
\* and in every later step the call makes no further status query: its record
\* stays as it is until the next submission drops it.
C21_NoQueryAfterTerminal ==
  [][\A t \in 1..Len(tasks) :
       Terminal(t)
       => /\ tasks[t].pc = "done"
          /\ \/ tasks'[t] = tasks[t]
             \/ tasks'[t].pc = "retired"]_vars

\* the first job failed; a later submission is on the second query of its
\* own job
C21_Witness ==
  /\ Len(tasks) = 2
  /\ tasks[1].pc = "retired"
  /\ Len(messages) >= 3
  /\ messages[3].text = JStr(DefaultFinalResponse)
  /\ tasks[2].pc = "pollFetch"
  /\ tasks[2].nQueries = 2

\* the submission of call t met a failure of the backend
AskWentWrong(t) ==
  \/ tasks[t].askResult \in {"rejected", "undecodable"}
  \/ tasks[t].askResult = "decoded" /\ tasks[t].thinkingId = 0

\* the last status query of call t met a failure of the backend
QueryWentWrong(t) ==
  \/ tasks[t].lastQuery \in {"rejected", "undecodable"}
  \/ /\ tasks[t].lastQuery = "decoded"
     /\ \/ tasks[t].lastData.t \in {"null", "undefined"}
        \/ /\ Field(tasks[t].lastData, "status") = JStr("COMPLETE")
           /\ Field(tasks[t].lastData, "response").t \in {"null", "undefined"}

\* C22: no call of handleSend, and no call of pollJobStatus started by it,
\* ever ends with an exception that no catch block took; every failure of
\* the backend at submission or at polling has ended the call with its final
\* message in the conversation.
C22_NoUncaughtFailure ==
  \A t \in 1..Len(tasks) :
    Live(t)
    => /\ tasks[t].pc # "uncaught"
       /\ (AskWentWrong(t) \/ QueryWentWrong(t))
            => /\ tasks[t].pc = "done"
               /\ HasId(tasks[t].finalId)
               /\ MsgWithId(tasks[t].finalId).sender = "assistant"

\* a 202 reply whose body is null: the destructuring of jobId throws and the
\* catch block of handleSend reports it
C22_Witness ==
  \E t \in 1..Len(tasks) :
    /\ tasks[t].pc = "done"
    /\ tasks[t].httpStatus = 202
    /\ tasks[t].askResult = "decoded"
    /\ tasks[t].errMessage = DestructureMsg
    /\ LastMsg.id = tasks[t].finalId
    /\ LastMsg.text = JStr(ErrorPrefix \o DestructureMsg)

\* C25: a status query whose decoded body reports ERROR, or any status other
\* than PENDING, PROCESSING and COMPLETE, or no status at all, ends the
\* poller at once: that query was the last one, every query before it had
\* reported PENDING or PROCESSING, and the placeholder is replaced by the
\* generic-failure message.
C25_ErrorStatusIsTerminal ==
  \A t \in 1..Len(tasks) :
    (/\ Live(t)
     /\ tasks[t].lastQuery = "decoded"
     /\ tasks[t].lastData.t = "object"
     /\ Field(tasks[t].lastData, "status")
          \notin {JStr("PENDING"), JStr("PROCESSING"), JStr("COMPLETE")})
    => /\ tasks[t].pc = "done"
       /\ tasks[t].nQueries = tasks[t].nPending + 1
       /\ tasks[t].nReplaced = 1
       /\ ~HasId(tasks[t].thinkingId)
       /\ \A i \in 1..Len(messages) : ~messages[i].isStatus
       /\ LastMsg.id = tasks[t].finalId
       /\ LastMsg.sender = "assistant"
       /\ LastMsg.text = JStr("A technical error occurred. Please try again.")

\* the second status reply carries no status field
C25_Witness ==
  \E t \in 1..Len(tasks) :
    /\ tasks[t].pc = "done"
    /\ tasks[t].lastData = JObj(<<>>)
    /\ tasks[t].nQueries = 2
    /\ tasks[t].nPending = 1
    /\ LastMsg.text = JStr(DefaultFinalResponse)

\* C27: whenever the conversation holds a placeholder the flag isTyping is
\* true (so that with the flag false there is none), and the placeholder is
\* that of the one call being polled.
C27_PlaceholderOnlyWhileTyping ==
  /\ (\E i \in 1..Len(messages) : messages[i].isStatus) => isTyping
  /\ ~isTyping => \A i \in 1..Len(messages) : ~messages[i].isStatus
  /\ \A i \in 1..Len(messages) :
       messages[i].isStatus
       => \E t \in 1..Len(tasks) :
            Polling(t) /\ tasks[t].thinkingId = messages[i].id

\* the flag is false after a job whose placeholder is gone, and a new input
\* is being typed
C27_Witness ==
  /\ ~isTyping
  /\ input = " q "
  /\ \E t \in 1..Len(tasks) :
       /\ tasks[t].pc = "done"
       /\ tasks[t].thinkingId # 0
       /\ tasks[t].nReplaced = 1
  /\ \A i \in 1..Len(messages) : ~messages[i].isStatus

\* the number of calls that have returned
Returned == Cardinality({t \in 1..Len(tasks) : tasks[t].pc \in {"done", "retired"}})

\* C28: every accepted submission that has reached its end, on any path, has
\* added two messages to the conversation, its user message and right after
\* it its final assistant message; it made one submission request, so that
\* there are as many user messages as calls.
C28_TwoMessagesPerSubmission ==
  /\ Returned = Len(tasks) => Len(messages) = 1 + 2 * Len(tasks)
  /\ Len(messages) >= 1 + 2 * Returned
  /\ Cardinality({i \in 1..Len(messages) : messages[i].sender = "user"}) = Len(tasks)
  /\ \A t \in 1..Len(tasks) :
       tasks[t].pc = "done"
       => /\ Len(messages) = 1 + 2 * Len(tasks)
          /\ messages[Len(messages) - 1].id = tasks[t].userId
          /\ messages[Len(messages) - 1].sender = "user"
          /\ LastMsg.id = tasks[t].finalId
          /\ LastMsg.sender = "assistant"
          /\ ~LastMsg.isStatus

\* two submissions have ended, the first by a submission failure, the second
\* by a job that timed out
C28_Witness ==
  /\ Len(tasks) = 2
  /\ Len(messages) = 5
  /\ isError(messages[3])
  /\ tasks[2].pc = "done"
  /\ tasks[2].nPending = maxAttempts

\* C29: a status query that reports COMPLETE with no response field, or with
\* null for it, ends the job cleanly: the poller has returned, the
\* placeholder is replaced by the generic-failure message, and isTyping is
\* false.
C29_CompleteWithoutResponse ==
  \A t \in 1..Len(tasks) :
    (/\ Live(t)
     /\ tasks[t].lastQuery = "decoded"
     /\ Field(tasks[t].lastData, "status") = JStr("COMPLETE")
     /\ Field(tasks[t].lastData, "response").t \in {"null", "undefined"})
    => /\ tasks[t].pc = "done"
       /\ tasks[t].nReplaced = 1
       /\ ~HasId(tasks[t].thinkingId)
       /\ \A i \in 1..Len(messages) : ~messages[i].isStatus
       /\ LastMsg.id = tasks[t].finalId
       /\ LastMsg.text = JStr("A technical error occurred. Please try again.")
       /\ ~isTyping

\* COMPLETE without a response field on the second query
C29_Witness ==
  \E t \in 1..Len(tasks) :
    /\ tasks[t].pc = "done"
    /\ tasks[t].lastData = JObj(<< <<"status", JStr("COMPLETE")>> >>)
    /\ tasks[t].nQueries = 2
    /\ tasks[t].jobStatus = JStr("ERROR")
    /\ ~isTyping

\* C26: in every step in which the replacement runs, the placeholder is in
\* the conversation (as its last message), the conversation keeps its
\* length, the final message stands at the index the placeholder had, with
\* an id no message had before and isStatus not set, and every other message
\* is as it was.
C26_ReplacementInPlace ==
  [][\A t \in 1..Len(tasks) :
       (t <= Len(tasks') /\ tasks'[t].nReplaced = tasks[t].nReplaced + 1)
       => /\ Cardinality(Placeholders(tasks[t].thinkingId)) = 1
          /\ LET i == IndexOf(tasks[t].thinkingId)
             IN /\ i = Len(messages)
                /\ Len(messages') = Len(messages)
                /\ messages'[i].id \notin {messages[j].id : j \in 1..Len(messages)}
                /\ messages'[i].id = tasks'[t].finalId
                /\ messages'[i].sender = "assistant"
                /\ messages'[i].text = tasks'[t].finalResponse
                /\ ~messages'[i].isStatus
                /\ \A j \in 1..Len(messages) : j # i => messages'[j] = messages[j]]_vars

\* the placeholder of the second submission stood at index 5 and the answer
\* of its job stands there now
C26_Witness ==
  /\ Len(tasks) = 2
  /\ tasks[2].pc = "done"
  /\ tasks[2].nReplaced = 1
  /\ tasks[2].jobStatus = JStr("COMPLETE")
  /\ Len(messages) = 5
  /\ messages[5].id = tasks[2].finalId
  /\ messages[5].id = tasks[2].thinkingId + 1
  /\ messages[5].text = AnswerString
  /\ messages[4].id = tasks[2].userId

(* ------------- claims checked on the earlier variant as well ----------- *)

\* C23: the first thing the poller does with a job is to append the
\* placeholder, a message with isStatus true; every status query is sent
\* after a delay of its own, the first one included, so that the number of
\* delays waited is never less than the number of queries sent, and equals
\* it when the poller has returned.
C23_DelayBeforeEveryQuery ==
  \A t \in 1..Len(tasks) :
    tasks[t].thinkingAt # 0
    => /\ tasks[t].pc # "done" => messages[tasks[t].thinkingAt].isStatus
       /\ tasks[t].nQueries <= tasks[t].nDelays
       /\ tasks[t].pc = "done" => tasks[t].nQueries = tasks[t].nDelays

\* C24: a status query that reports PROCESSING, with fewer than maxAttempts
\* queries made, does not end the poller: the call is still polling, and no
\* failure message has been appended for it.
C24_ProcessingKeepsPolling ==
  \A t \in 1..Len(tasks) :
    (/\ tasks[t].lastQuery = "decoded"
     /\ Field(tasks[t].lastData, "status") = JStr("PROCESSING")
     /\ tasks[t].nQueries < maxAttempts)
    => /\ tasks[t].pc \in {"pollDelay", "pollFetch", "pollJson"}
       /\ LastMsg.text # JStr(EarlierFailureText)

(* --------------------------- the admin panel --------------------------- *)
(* src/src/AdminPanel.jsx: the displayed effective configuration            *)
(* (currentConfig), the two forms (systemConfig, emergencyConfig; of their   *)
(* fields those that reach currentConfig), the flags loading and saving,     *)
(* and the handlers loadConfiguration, updateSystemConfig and                *)
(* toggleEmergencyMode, each cut at its awaits.  A handler works on the      *)
(* systemConfig and emergencyConfig of the render it was called from (sys,   *)
(* emg).  While loading is true the panel shows a spinner only (line 289);   *)
(* the two save buttons are disabled while saving is true (lines 548, 643).  *)
(* status holds the type of the status line.  lastOverride is the override   *)
(* the latest successful load delivered or the latest successful save sent;  *)
(* adminEvent tells how the step just taken ended.                           *)

\* number of handler calls started from the buttons
MaxAdminCalls == 2

Providers == {"bedrock", "openai"}

Models == {"anthropic.claude-3-7-sonnet-20250219-v1:0", "gpt-4"}

SystemConfigs == [default_provider : Providers, default_model : Models]

Overrides == [emergency_mode : BOOLEAN, force_provider : Providers, force_model : Models]

\* decoded bodies of the reply to GET /admin
LoadReplies ==
  [status : {"success"}, system_config : SystemConfigs, admin_override : Overrides]
  \cup [status : {"error"}, system_config : {AdminDefaults.sys},
        admin_override : {AdminDefaults.emg}]

\* decoded bodies of the reply to POST /admin
SaveReplies == {"success", "error"}

\* lines 75-90: the effective configuration of a loaded reply
EffectiveConfig(data) ==
  IF data.admin_override.emergency_mode
    THEN [source |-> "emergency_override",
          provider |-> data.admin_override.force_provider,
          model |-> data.admin_override.force_model]
    ELSE [source |-> "system_default",
          provider |-> data.system_config.default_provider,
          model |-> data.system_config.default_model]

\* lines 161-166: what updateSystemConfig displays after a successful save
ConfigAfterSystemSave(sys) ==
  [source |-> "system_default",
   provider |-> sys.default_provider,
   model |-> sys.default_model]

\* lines 199-216: what toggleEmergencyMode displays after a successful save
ConfigAfterEmergencySave(sys, emg) ==
  IF emg.emergency_mode
    THEN [source |-> "emergency_override",
          provider |-> emg.force_provider,
          model |-> emg.force_model]
    ELSE [source |-> "system_default",
          provider |-> sys.default_provider,
          model |-> sys.default_model]

AdminCall(op) == [op |-> op, pc |-> "fetch", sys |-> systemConfig, emg |-> emergencyConfig]

RemoveAt(seq, c) == [i \in 1..(Len(seq) - 1) |-> IF i < c THEN seq[i] ELSE seq[i + 1]]

\* the panel after mounting: the effect of line 53 has called
\* loadConfiguration
AdminMounted ==
  /\ currentConfig = NoConfig
  /\ systemConfig = AdminDefaults.sys
  /\ emergencyConfig = AdminDefaults.emg
  /\ loading = TRUE
  /\ saving = FALSE
  /\ status = "none"
  /\ adminCalls = << [op |-> "load", pc |-> "fetch", sys |-> AdminDefaults.sys,
                      emg |-> AdminDefaults.emg] >>
  /\ lastOverride = NoOverride
  /\ adminEvent = "none"
  /\ nAdminCalls = 0

AdminInit == ChatInit /\ PureIdle /\ AdminMounted

\* onClick={loadConfiguration} (line 409), up to the first await
LoadConfiguration ==
  /\ ~loading
  /\ nAdminCalls < MaxAdminCalls
  /\ loading' = TRUE
  /\ adminCalls' = Append(adminCalls, AdminCall("load"))
  /\ nAdminCalls' = nAdminCalls + 1
  /\ adminEvent' = "start"
  /\ UNCHANGED <<currentConfig, systemConfig, emergencyConfig, saving, status,
                 lastOverride>>
  /\ UNCHANGED <<chatVars, pureVars>>

\* onClick of a save button (lines 547, 642), up to the first await
StartSave(op) ==
  /\ ~loading
  /\ ~saving
  /\ nAdminCalls < MaxAdminCalls
  /\ saving' = TRUE
  /\ status' = "info"
  /\ adminCalls' = Append(adminCalls, AdminCall(op))
  /\ nAdminCalls' = nAdminCalls + 1
  /\ adminEvent' = "start"
  /\ UNCHANGED <<currentConfig, systemConfig, emergencyConfig, loading, lastOverride>>
  /\ UNCHANGED <<chatVars, pureVars>>

UpdateSystemConfig == StartSave("updateSystemConfig")

ToggleEmergencyMode == StartSave("toggleEmergencyMode")

\* the onChange handlers of the system form (lines 452, 466)
EditSystemConfig(cfg) ==
  /\ ~loading
  /\ \/ cfg = [systemConfig EXCEPT !.default_provider = cfg.default_provider]
     \/ cfg = [systemConfig EXCEPT !.default_model = cfg.default_model]
  /\ cfg # systemConfig
  /\ systemConfig' = cfg
  /\ adminEvent' = "edit"
  /\ UNCHANGED <<currentConfig, emergencyConfig, loading, saving, status,
                 adminCalls, lastOverride, nAdminCalls>>
  /\ UNCHANGED <<chatVars, pureVars>>

\* the onChange handlers of the emergency form (lines 583, 600, 614)
EditEmergencyConfig(ov) ==
  /\ ~loading
  /\ \/ ov = [emergencyConfig EXCEPT !.emergency_mode = ov.emergency_mode]
     \/ ov = [emergencyConfig EXCEPT !.force_provider = ov.force_provider]
     \/ ov = [emergencyConfig EXCEPT !.force_model = ov.force_model]
  /\ ov # emergencyConfig
  /\ emergencyConfig' = ov
  /\ adminEvent' = "edit"
  /\ UNCHANGED <<currentConfig, systemConfig, loading, saving, status,
                 adminCalls, lastOverride, nAdminCalls>>
  /\ UNCHANGED <<chatVars, pureVars>>

\* the finally block of the handler of call c, and its return
AdminFinally(c) ==
  /\ adminCalls' = RemoveAt(adminCalls, c)
  /\ IF adminCalls[c].op = "load"
       THEN loading' = FALSE /\ UNCHANGED saving
       ELSE saving' = FALSE /\ UNCHANGED loading
  /\ UNCHANGED nAdminCalls
  /\ UNCHANGED <<chatVars, pureVars>>

\* the catch block, or the else branch of the status test: the call failed
AdminFails(c) ==
  /\ status' = "error"
  /\ adminEvent' = "failed"
  /\ UNCHANGED <<currentConfig, systemConfig, emergencyConfig, lastOverride>>
  /\ AdminFinally(c)

\* await fetch(...) rejects
AdminFetchRejects(c) ==
  /\ adminCalls[c].pc = "fetch"
  /\ AdminFails(c)

\* await fetch(...) resolves; the status code is not looked at
AdminFetchResolves(c) ==
  /\ adminCalls[c].pc = "fetch"
  /\ adminCalls' = [adminCalls EXCEPT ![c].pc = "json"]
  /\ adminEvent' = "net"
  /\ UNCHANGED <<currentConfig, systemConfig, emergencyConfig, loading, saving,
                 status, lastOverride, nAdminCalls>>
  /\ UNCHANGED <<chatVars, pureVars>>

\* await response.json() rejects
AdminJsonRejects(c) ==
  /\ adminCalls[c].pc = "json"
  /\ AdminFails(c)

\* await response.json() resolves in loadConfiguration (lines 67-96)
LoadJsonResolves(c, data) ==
  /\ adminCalls[c].pc = "json"
  /\ adminCalls[c].op = "load"
  /\ IF data.status = "success"
       THEN /\ systemConfig' = data.system_config
            /\ emergencyConfig' = data.admin_override
            /\ currentConfig' = EffectiveConfig(data)
            /\ status' = "success"
            /\ lastOverride' = data.admin_override
            /\ adminEvent' = "ok"
            /\ AdminFinally(c)
       ELSE AdminFails(c)

\* await response.json() resolves in updateSystemConfig (lines 157-174)
SystemSaveJsonResolves(c, reply) ==
  /\ adminCalls[c].pc = "json"
  /\ adminCalls[c].op = "updateSystemConfig"
  /\ IF reply = "success"
       THEN /\ currentConfig' = ConfigAfterSystemSave(adminCalls[c].sys)
            /\ status' = "success"
            /\ adminEvent' = "ok"
            /\ UNCHANGED <<systemConfig, emergencyConfig, lastOverride>>
            /\ AdminFinally(c)
       ELSE AdminFails(c)

\* await response.json() resolves in toggleEmergencyMode (lines 196-224)
EmergencySaveJsonResolves(c, reply) ==
  /\ adminCalls[c].pc = "json"
  /\ adminCalls[c].op = "toggleEmergencyMode"
  /\ IF reply = "success"
       THEN /\ currentConfig' =
                 ConfigAfterEmergencySave(adminCalls[c].sys, adminCalls[c].emg)
            /\ status' = IF adminCalls[c].emg.emergency_mode
                           THEN "warning" ELSE "success"
            /\ lastOverride' = adminCalls[c].emg
            /\ adminEvent' = "ok"
            /\ UNCHANGED <<systemConfig, emergencyConfig>>
            /\ AdminFinally(c)
       ELSE AdminFails(c)

AdminNext ==
  \/ LoadConfiguration
  \/ UpdateSystemConfig
  \/ ToggleEmergencyMode
  \/ \E cfg \in SystemConfigs : EditSystemConfig(cfg)
  \/ \E ov \in Overrides : EditEmergencyConfig(ov)
  \/ \E c \in 1..Len(adminCalls) : AdminFetchRejects(c)
  \/ \E c \in 1..Len(adminCalls) : AdminFetchResolves(c)
  \/ \E c \in 1..Len(adminCalls) : AdminJsonRejects(c)
  \/ \E c \in 1..Len(adminCalls) : \E data \in LoadReplies : LoadJsonResolves(c, data)
  \/ \E c \in 1..Len(adminCalls) : \E reply \in SaveReplies : SystemSaveJsonResolves(c, reply)
  \/ \E c \in 1..Len(adminCalls) : \E reply \in SaveReplies : EmergencySaveJsonResolves(c, reply)

AdminSpec == AdminInit /\ [][AdminNext]_vars

\* the displayed configuration agrees with the override last loaded or saved
ShowsLastOverride ==
  currentConfig # NoConfig
  => IF lastOverride.emergency_mode
       THEN /\ currentConfig.source = "emergency_override"
            /\ currentConfig.provider = lastOverride.force_provider
            /\ currentConfig.model = lastOverride.force_model
       ELSE currentConfig.source = "system_default"

\* C30: after every step of the admin panel the displayed effective
\* configuration has source emergency_override, with the forced provider and
\* model, exactly when the override last loaded from the backend or last
\* saved to it with success has emergency_mode true, and source
\* system_default otherwise; a step in which a call fails leaves the
\* displayed configuration as it was.
C30_EffectiveConfigTracksOverride ==
  [][/\ ShowsLastOverride'
     /\ adminEvent' = "failed" => currentConfig' = currentConfig]_vars

====
